---------------------------- MODULE Spec2Model ----------------------------
(***************************************************************************)
(* Model of the syllabooster import commands (importunit, importcourse)    *)
(* and of the relational store they write (syllabooster/models.py).        *)
(*                                                                         *)
(* The store is a set of rows per table.  A run of a command is a sequence *)
(* of steps: the prologue of handle(), one step per node of the outline    *)
(* (the loop body of parse_org), and the end of the loop.  Every statement *)
(* of the commands is committed as it is executed (the commands open no    *)
(* transaction), so an exception ends the run and leaves the store as the  *)
(* statements executed so far have made it.                                *)
(*                                                                         *)
(* The outline parser is an external collaborator: a file is the sequence  *)
(* of nodes it hands over in document order, each with level, heading,     *)
(* tags, body, the POSITION and TYPE properties and the TODO keyword.      *)
(***************************************************************************)
EXTENDS Integers, Sequences, FiniteSets, Bags, TLC

VARIABLES
    courses,        \* Course rows        [id, name, user]
    units,          \* Unit rows          [id, course, position, title]
    points,         \* Point rows         [id, headline, contents, ptype, tags]
    tags,           \* Tag rows: a bag of names (Tag.name is not unique in the schema)
    coursepoints,   \* CoursePoint rows   [id, course, point, position, state, unit]
    ptypes,         \* PointType rows: their names (unique)
    dstates,        \* DeliveryState rows [ptype, name]
    nextid,         \* the AutoField sequences of the tables
    pc,             \* where the command is: idle, unit, settle, course, done
    cmd,            \* the command of the current or last run
    err,            \* the exception that ended the last run, or NoErr
    course,         \* self.course: the id of the course of the run
    file,           \* the outline of the run: the nodes in document order
    idx,            \* the index of the next node of the loop
    insert,         \* options["insert"]
    force,          \* options["force"]
    unitnumbers,    \* self.unitnumbers: a set with at most one unit number
    current_unit,   \* parse_org's local current_unit
    next_point,     \* parse_org's local next_point
    unit_tags,      \* parse_org's local unit_tags: position -> tags
    pre,            \* history: the store when the run started
    skipped,        \* history: the indexes of the nodes whose prompt was declined
    prompted,       \* history: whether the run asked for a confirmation
    decl,           \* history: the units the run created, with the tags declared
                    \*          on the heading of each
    runs,           \* history: the number of runs started
    used            \* history: the number of nodes of the files read so far

store == <<courses, units, points, tags, coursepoints, ptypes, dstates, nextid>>
local == <<pc, cmd, err, course, file, idx, insert, force, unitnumbers,
           current_unit, next_point, unit_tags>>
hist == <<pre, skipped, prompted, decl, runs, used>>
vars == <<store, local, hist>>

----------------------------------------------------------------------------
(* Bounds of the model. *)

MaxNodes == 3
MaxTotal == 4
MaxRuns == 2

----------------------------------------------------------------------------
(* Values. *)

NoErr == "none"
NoUnit == 0
NoCourse == 0
NoPos == -1

\* update(position=F("position") + 10000) on the units at or after position p.
Offset == 10000
NoState == [ptype |-> "", name |-> ""]

UserNames == {"manuel"}
ArgUsers == {"manuel", "nobody"}
ArgCourses == {"c1"}

\* str.lower() on the strings of the model.
Lower(s) ==
    CASE s = "Theory" -> "theory"
      [] s = "Exercise" -> "exercise"
      [] s = "TODO" -> "todo"
      [] s = "DONE" -> "done"
      [] s = "Y" -> "y"
      [] s = "Yes" -> "yes"
      [] s = "N" -> "n"
      [] OTHER -> s

Max(S) == CHOOSE x \in S : \A y \in S : y <= x

Snapshot ==
    [courses |-> courses, units |-> units, points |-> points, tags |-> tags,
     coursepoints |-> coursepoints]

----------------------------------------------------------------------------
(* The outline: nodes as the parser hands them over. *)

UnitNode(p, h, t) ==
    [level |-> 1, heading |-> h, tags |-> t, pos |-> p, type |-> "", todo |-> "",
     body |-> ""]

PointNode(h, t, ty, td, b) ==
    [level |-> 2, heading |-> h, tags |-> t, pos |-> NoPos, type |-> ty,
     todo |-> td, body |-> b]

DeepNode(h) ==
    [level |-> 3, heading |-> h, tags |-> {}, pos |-> NoPos, type |-> "", todo |-> "",
     body |-> ""]

UnitNodes ==
    { UnitNode(1, "A", {"x"}), UnitNode(2, "B", {}) }

\* The type of the first is the default; "bogus" names no PointType; theory has
\* no state named done.
PointNodes ==
    { PointNode("p", {"y"}, "", "", "b1"),
      PointNode("p", {}, "exercise", "TODO", "b2"),
      PointNode("q", {}, "theory", "DONE", "b1") }

\* importunit is run on files whose units may lack a POSITION or have a far
\* one and whose points may name an unknown type, importcourse on files that
\* may name an unknown type as well or hold a deeper node.
UnitFileNodes ==
    UnitNodes \cup PointNodes
        \cup {UnitNode(NoPos, "B", {}), UnitNode(2 + Offset, "C", {}),
              PointNode("q", {}, "bogus", "", "b2")}

CourseFileNodes ==
    UnitNodes \cup PointNodes
        \cup {DeepNode("d"), PointNode("q", {}, "bogus", "", "b2")}

\* The files of at most n nodes.
Files(N, n) == UNION { [1..k -> N] : k \in 1..n }

Min(a, b) == IF a < b THEN a ELSE b

ArgUnitNumbers == {0, 1}
ArgFormats == {"org", "md"}
Answers == {"y", "Yes", "n", ""}

\* node.parent: the index of the nearest earlier node of a lower level, 0 for root.
Parent(f, i) ==
    LET above == {j \in 1..(i - 1) : f[j].level < f[i].level}
    IN  IF above = {} THEN 0 ELSE Max(above)

\* importunit: node.unit of a level-1 node is its POSITION.
UnitParentPos(f, i) ==
    IF Parent(f, i) = 0 THEN NoPos ELSE f[Parent(f, i)].pos

\* importcourse: node.unit of a level-1 node is its rank among the level-1 nodes.
CourseParentPos(f, i) ==
    IF Parent(f, i) = 0 THEN NoPos
    ELSE Cardinality({j \in 1..Parent(f, i) : f[j].level = 1})

----------------------------------------------------------------------------
(* The store. *)

UnitsAt(us, c, p) == {u \in us : u.course = c /\ u.position = p}

\* QuerySet.delete() on units: CoursePoint.unit is on_delete=CASCADE.
DeleteUnits(us, gone) == us \ gone

\* A delete of units that leaves their CoursePoints.
CascadeNone(cps, gone) == cps

CascadeUnits(cps, gone) == {cp \in cps : cp.unit \notin {u.id : u \in gone}}

\* Course.objects.filter(...).delete(): Unit.course and CoursePoint.course cascade.
DeleteCourseUnits(us, gone) == {u \in us : u.course \notin {c.id : c \in gone}}

DeleteCourseCoursePoints(cps, us, gone) ==
    {cp \in cps : /\ cp.course \notin {c.id : c \in gone}
                  /\ cp.unit \notin {u.id : u \in us \ DeleteCourseUnits(us, gone)}}

\* unique_together = ["course", "position"] of Unit.
UnitConflict(us, c, p) == UnitsAt(us, c, p) # {}

\* unique_together = ["course", "point"] of CoursePoint.
CoursePointConflict(cps, c, p) == \E cp \in cps : cp.course = c /\ cp.point = p

OffsetUnits(us, c, p) ==
    { IF u.course = c /\ u.position >= p
      THEN [u EXCEPT !.position = @ + Offset] ELSE u : u \in us }

\* The UPDATE rewrites the rows one at a time, in an order of the database's
\* choosing, and the constraint of Unit is checked at each row: a row that is
\* moved onto the position of a row not yet moved is rejected.
OffsetClash(us, c, p) ==
    \E u, v \in us :
        /\ u.id # v.id
        /\ u.course = c /\ v.course = c
        /\ u.position >= p
        /\ v.position = u.position + Offset

----------------------------------------------------------------------------
(* renumber_points *)

UnitPos(us, uid) == (CHOOSE u \in us : u.id = uid).position

\* The CoursePoints the loops of renumber_points visit: those of the units of
\* the course.
Renumbered(cps, us, c) ==
    {cp \in cps : \E u \in us : u.course = c /\ u.id = cp.unit}

\* cp is visited before dp: its unit comes first, or within one unit its position.
Before(us, cp, dp) ==
    \/ UnitPos(us, cp.unit) < UnitPos(us, dp.unit)
    \/ cp.unit = dp.unit /\ cp.position < dp.position

NotAfter(us, cp, dp) ==
    \/ UnitPos(us, cp.unit) < UnitPos(us, dp.unit)
    \/ cp.unit = dp.unit /\ cp.position <= dp.position

\* The numberings of a loop that visits the CoursePoints of a unit from the
\* last position to the first.
NumberingsDescending(cps, us, c) ==
    LET S == Renumbered(cps, us, c)
        first(cp, dp) ==
            \/ UnitPos(us, cp.unit) < UnitPos(us, dp.unit)
            \/ cp.unit = dp.unit /\ cp.position > dp.position
        lo(cp) == 1 + Cardinality({dp \in S : first(dp, cp)})
        tie(cp, dp) == dp.unit = cp.unit /\ dp.position = cp.position
        hi(cp) == Cardinality({dp \in S : first(dp, cp) \/ tie(cp, dp)})
    IN  {f \in [S -> 1..Cardinality(S)] :
            /\ \A cp \in S : lo(cp) <= f[cp] /\ f[cp] <= hi(cp)
            /\ \A cp, dp \in S : cp # dp => f[cp] # f[dp]}

\* The numberings renumber_points can produce: point_number counts the visited
\* CoursePoints from 1; order_by("position") leaves the order of equal
\* positions to the database.
Numberings(cps, us, c) ==
    LET S == Renumbered(cps, us, c)
        lo(cp) == 1 + Cardinality({dp \in S : Before(us, dp, cp)})
        hi(cp) == Cardinality({dp \in S : NotAfter(us, dp, cp)})
    IN  IF \A cp \in S : lo(cp) = hi(cp)
        THEN {[cp \in S |-> lo(cp)]}
        ELSE {f \in [S -> 1..Cardinality(S)] :
                /\ \A cp \in S : lo(cp) <= f[cp] /\ f[cp] <= hi(cp)
                /\ \A cp, dp \in S : cp # dp => f[cp] # f[dp]}

Renumberings(cps, us, c) ==
    { { IF cp \in Renumbered(cps, us, c) THEN [cp EXCEPT !.position = f[cp]] ELSE cp :
        cp \in cps } : f \in Numberings(cps, us, c) }

\* A filter that lets every unit through.
should_be_imported_always(unit, numbers) == TRUE

should_be_imported(unit, numbers) ==
    IF Cardinality(numbers) > 0 THEN unit \in numbers ELSE TRUE

----------------------------------------------------------------------------
(* The body of the loop for a level-2 node (the same in both commands but    *)
(* for the lookup of the type).                                              *)

\* node.get_property("TYPE") or "Theory"
TypeOrDefault(n) == IF n.type = "" THEN "Theory" ELSE n.type

\* A lookup that falls back on the type "theory" whatever the node names.
UnitTypeNameTheory(n) == "theory"

\* importunit: PointType.objects.get(name=point_type.lower())
UnitTypeName(n) == Lower(TypeOrDefault(n))

\* importcourse: PointType.objects.get(name=point_type)
CourseTypeName(n) == TypeOrDefault(n)

\* A lookup that finds nothing, so that a Point is created for every node.
PointsNamedNone(ps, h) == {}

\* Point.objects.get_or_create(headline=node.heading): the rows it finds.
PointsNamed(ps, h) == {p \in ps : p.headline = h}

\* Tag.objects.get_or_create(name=tag) for each name: the rows of the table after.
TagsAfter(tb, names) ==
    tb (+) SetToBag({t \in names : CopiesIn(t, tb) = 0})

\* get_or_create raises MultipleObjectsReturned when several rows match.
TagsAmbiguous(tb, names) == \E t \in names : CopiesIn(t, tb) > 1

\* No tag of the node is added.
OwnTagsNone(n) == {}

\* The tags of the node itself, added to the point.
OwnTags(n) == n.tags

\* No tag of the unit is added.
PropagatedTagsNone(ut, p) == {}

\* The tags of the unit, added to the point: unit_tags[unit_position].
PropagatedTags(ut, p) == ut[p]

\* A lookup by name alone, among the states of every type.
ResolveStateAnyType(ds, tname, todo) ==
    IF \E d \in ds : d.name = todo THEN CHOOSE d \in ds : d.name = todo ELSE NoState

\* DeliveryState.objects.filter(point_type_id=...).get(name=todo), or None.
ResolveState(ds, tname, todo) ==
    IF todo # "" /\ [ptype |-> tname, name |-> todo] \in ds
    THEN [ptype |-> tname, name |-> todo]
    ELSE NoState

\* A CoursePoint numbered by the index of its node in the file.
NewPointPositionByNode(np) == idx

\* The position the CoursePoint is created with.
NewPointPosition(np) == np

Outcome(e, ps, tb, cps, nid) ==
    [err |-> e, points |-> ps, tags |-> tb, coursepoints |-> cps, nextid |-> nid]

\* The store after the body of the loop for the level-2 node n, and the
\* exception that ended it, if any.  tname is the name the type is looked up
\* by, upos the position of the parent unit (NoPos: the parent is the root).
ReconcilePoint(n, tname, upos) ==
    LET found == PointsNamed(points, n.heading)
        created == found = {}
        old == CHOOSE p \in found : TRUE
        pid == IF created THEN nextid.point ELSE old.id
        nid1 == IF created THEN [nextid EXCEPT !.point = @ + 1] ELSE nextid
        p1 == IF created
              THEN [id |-> pid, headline |-> n.heading, contents |-> n.body,
                    ptype |-> "", tags |-> {}]
              ELSE [old EXCEPT !.contents = n.body]
        rest == points \ found
        p2 == [p1 EXCEPT !.tags = @ \cup OwnTags(n)]
        tb2 == TagsAfter(tags, OwnTags(n))
        p3 == [p2 EXCEPT !.ptype = tname]
        state == ResolveState(dstates, tname, Lower(n.todo))
        unitrows == UnitsAt(units, course, upos)
        p4 == IF upos = NoPos THEN p3
              ELSE [p3 EXCEPT !.tags = @ \cup PropagatedTags(unit_tags, upos)]
        tb4 == IF upos = NoPos THEN tb2
               ELSE TagsAfter(tb2, PropagatedTags(unit_tags, upos))
        cp == [id |-> nextid.coursepoint, course |-> course, point |-> pid,
               position |-> NewPointPosition(next_point), state |-> state,
               unit |-> IF upos = NoPos THEN NoUnit
                        ELSE (CHOOSE u \in unitrows : TRUE).id]
    IN  IF Cardinality(found) > 1
        THEN Outcome("Point.MultipleObjectsReturned", points, tags, coursepoints, nextid)
        ELSE IF TagsAmbiguous(tags, OwnTags(n))
        THEN Outcome("Tag.MultipleObjectsReturned", rest \cup {p1}, tags, coursepoints, nid1)
        ELSE IF tname \notin ptypes
        THEN Outcome("PointType.DoesNotExist", rest \cup {p2}, tb2, coursepoints, nid1)
        ELSE IF upos # NoPos /\ Cardinality(unitrows) # 1
        THEN Outcome("Unit.DoesNotExist", rest \cup {p3}, tb2, coursepoints, nid1)
        ELSE IF upos # NoPos /\ upos \notin DOMAIN unit_tags
        THEN Outcome("KeyError", rest \cup {p3}, tb2, coursepoints, nid1)
        ELSE IF upos # NoPos /\ TagsAmbiguous(tb2, PropagatedTags(unit_tags, upos))
        THEN Outcome("Tag.MultipleObjectsReturned", rest \cup {p3}, tb2, coursepoints, nid1)
        ELSE IF CoursePointConflict(coursepoints, course, pid)
        THEN Outcome("IntegrityError:coursepoint", rest \cup {p4}, tb4, coursepoints, nid1)
        ELSE Outcome(NoErr, rest \cup {p4}, tb4, coursepoints \cup {cp},
                     [nid1 EXCEPT !.coursepoint = @ + 1])

\* unit_tags[current_unit] = the tags of the node
CacheTags(ut, p, t) ==
    [q \in (DOMAIN ut) \cup {p} |-> IF q = p THEN t ELSE ut[q]]

\* Unit.objects.create(course=..., position=..., title=...)
NewUnit(c, p, h) == [id |-> nextid.unit, course |-> c, position |-> p, title |-> h]

----------------------------------------------------------------------------
(* Steps shared by the actions. *)

\* An exception leaves the command: the run is over.
Raise(e) ==
    /\ pc' = "done"
    /\ err' = e
    /\ UNCHANGED <<cmd, course, file, idx, insert, force, unitnumbers,
                   current_unit, next_point, unit_tags>>

\* A run that ends in the prologue of handle(), before any outline is read.
EndInPrologue(c, k, e) ==
    /\ pc' = "done"
    /\ cmd' = c
    /\ err' = e
    /\ course' = k
    /\ file' = << >>
    /\ idx' = 1
    /\ insert' = FALSE
    /\ force' = FALSE
    /\ unitnumbers' = {}
    /\ current_unit' = 0
    /\ next_point' = 1
    /\ unit_tags' = << >>

\* The locals as parse_org starts its loop.
EnterLoop(c, k, f, ins, frc, nums) ==
    /\ pc' = c
    /\ cmd' = IF c = "unit" THEN "importunit" ELSE "importcourse"
    /\ err' = NoErr
    /\ course' = k
    /\ file' = f
    /\ idx' = 1
    /\ insert' = ins
    /\ force' = frc
    /\ unitnumbers' = nums
    /\ current_unit' = 0
    /\ next_point' = 1
    /\ unit_tags' = << >>

StartHistory(f) ==
    /\ pre' = Snapshot
    /\ skipped' = {}
    /\ decl' = {}
    /\ runs' = runs + 1
    /\ used' = used + Len(f)

\* Course.objects.get_or_create(name=course_name, user=self.user)
CourseRows(cs, name, user) == {c \in cs : c.name = name /\ c.user = user}

----------------------------------------------------------------------------
(* importunit *)

\* handle(): the user, the course, the file, the options; then parse_org starts.
StartUnit(user, name, isfile, fmt, f, number, ins, frc) ==
    /\ pc = "idle"
    /\ runs < MaxRuns
    /\ StartHistory(IF user \in UserNames /\ isfile /\ fmt = "org" THEN f ELSE << >>)
    /\ prompted' = FALSE
    /\ UNCHANGED <<units, points, tags, coursepoints, ptypes, dstates>>
    /\ IF user \notin UserNames
       THEN /\ EndInPrologue("importunit", NoCourse, "CommandError:user")
            /\ UNCHANGED <<courses, nextid>>
       ELSE LET found == CourseRows(courses, name, user)
                k == IF found = {} THEN nextid.course
                     ELSE (CHOOSE c \in found : TRUE).id
            IN  /\ courses' = IF found = {}
                              THEN courses \cup {[id |-> k, name |-> name, user |-> user]}
                              ELSE courses
                /\ nextid' = IF found = {} THEN [nextid EXCEPT !.course = @ + 1]
                             ELSE nextid
                /\ IF ~isfile
                   THEN EndInPrologue("importunit", k, "CommandError:file")
                   ELSE IF fmt # "org"
                   THEN EndInPrologue("importunit", k, NoErr)
                   ELSE EnterLoop("unit", k, f, ins, frc,
                                  IF number # 0 THEN {number} ELSE {})

\* The units of the loop body that create the unit of the node: after the
\* units in gone have been deleted.
CreateUnitAfter(n, gone) ==
    LET us == DeleteUnits(units, gone)
    IN  /\ coursepoints' = CascadeUnits(coursepoints, gone)
        /\ UNCHANGED <<courses, points, tags, ptypes, dstates>>
        /\ IF UnitConflict(us, course, n.pos)
           THEN /\ units' = us
                /\ UNCHANGED <<nextid, decl>>
                /\ Raise("IntegrityError:unit")
           ELSE /\ units' = us \cup {NewUnit(course, n.pos, n.heading)}
                /\ nextid' = [nextid EXCEPT !.unit = @ + 1]
                /\ decl' = decl \cup {[unit |-> nextid.unit, tags |-> n.tags]}
                /\ unit_tags' = CacheTags(unit_tags, n.pos, n.tags)
                /\ current_unit' = n.pos
                /\ idx' = idx + 1
                /\ UNCHANGED <<pc, cmd, err, course, file, insert, force, unitnumbers,
                               next_point>>

\* The loop body for a level-1 node.
UnitNodeL1 ==
    /\ pc = "unit"
    /\ idx <= Len(file)
    /\ file[idx].level = 1
    /\ UNCHANGED <<pre, runs, used>>
    /\ LET n == file[idx]
       IN  IF n.pos = NoPos
           THEN \* int(None)
                /\ Raise("TypeError:int")
                /\ UNCHANGED <<store, skipped, prompted, decl>>
           ELSE IF ~should_be_imported(n.pos, unitnumbers)
           THEN /\ current_unit' = n.pos
                /\ idx' = idx + 1
                /\ UNCHANGED <<store, skipped, prompted, decl, pc, cmd, err, course, file,
                               insert, force, unitnumbers, next_point, unit_tags>>
           ELSE IF UnitsAt(units, course, n.pos) = {}
           THEN /\ CreateUnitAfter(n, {})
                /\ UNCHANGED <<skipped, prompted>>
           ELSE IF insert
           THEN \* the offset step; the settle step is the next statement
                /\ current_unit' = n.pos
                /\ UNCHANGED <<courses, points, tags, coursepoints, ptypes, dstates,
                               nextid, skipped, prompted, decl, cmd, course, file, idx,
                               insert, force, unitnumbers, next_point, unit_tags>>
                /\ \/ /\ units' = OffsetUnits(units, course, n.pos)
                      /\ pc' = "settle"
                      /\ UNCHANGED err
                   \/ /\ OffsetClash(units, course, n.pos)
                      /\ pc' = "done"
                      /\ err' = "IntegrityError:unit"
                      /\ UNCHANGED units
           ELSE IF force
           THEN /\ CreateUnitAfter(n, UnitsAt(units, course, n.pos))
                /\ UNCHANGED <<skipped, prompted>>
           ELSE \E answer \in Answers :
                /\ prompted' = TRUE
                /\ IF Lower(answer) \notin {"y", "yes"}
                   THEN \* "Unit skipped.": continue
                        /\ skipped' = skipped \cup {idx}
                        /\ current_unit' = n.pos
                        /\ idx' = idx + 1
                        /\ UNCHANGED <<store, decl, pc, cmd, err, course, file, insert,
                                       force, unitnumbers, next_point, unit_tags>>
                   ELSE /\ CreateUnitAfter(n, UnitsAt(units, course, n.pos))
                        /\ UNCHANGED skipped

\* The settle step of the insertion: Unit.objects.filter(self.course, ...) hands
\* filter() a model instance where it takes Q objects, and filter() raises.
UnitSettle ==
    /\ pc = "settle"
    /\ Raise("TypeError:filter")
    /\ UNCHANGED <<store, hist>>

\* The loop body for a level-2 node of a unit that is imported.
UnitNodeL2 ==
    /\ pc = "unit"
    /\ idx <= Len(file)
    /\ file[idx].level = 2
    /\ should_be_imported(current_unit, unitnumbers)
    /\ LET r == ReconcilePoint(file[idx], UnitTypeName(file[idx]),
                               UnitParentPos(file, idx))
       IN  /\ points' = r.points
           /\ tags' = r.tags
           /\ coursepoints' = r.coursepoints
           /\ nextid' = r.nextid
           /\ IF r.err # NoErr
              THEN Raise(r.err)
              ELSE /\ next_point' = next_point + 1
                   /\ idx' = idx + 1
                   /\ UNCHANGED <<pc, cmd, err, course, file, insert, force,
                                  unitnumbers, current_unit, unit_tags>>
    /\ UNCHANGED <<courses, units, ptypes, dstates, hist>>

\* A node the loop body does nothing for: a level-2 node of a unit that is not
\* imported, or a node below level 2.
UnitNodeOther ==
    /\ pc = "unit"
    /\ idx <= Len(file)
    /\ file[idx].level # 1
    /\ ~(file[idx].level = 2 /\ should_be_imported(current_unit, unitnumbers))
    /\ idx' = idx + 1
    /\ UNCHANGED <<store, hist, pc, cmd, err, course, file, insert, force, unitnumbers,
                   current_unit, next_point, unit_tags>>

\* The end of the loop: renumber_points(self.course).
UnitFinish ==
    /\ pc = "unit"
    /\ idx > Len(file)
    /\ coursepoints' \in Renumberings(coursepoints, units, course)
    /\ pc' = "done"
    /\ UNCHANGED <<courses, units, points, tags, ptypes, dstates, nextid, hist, cmd,
                   err, course, file, idx, insert, force, unitnumbers, current_unit,
                   next_point, unit_tags>>

----------------------------------------------------------------------------
(* importcourse *)

\* A counter that is not advanced.
NextUnitPositionSame(cu) == cu

\* current_unit = current_unit + 1
NextUnitPosition(cu) == cu + 1

\* handle(): the user, the course found or created, the confirmation, the
\* course deleted and created again, the file; then parse_org starts.
StartCourse(user, name, isfile, fmt, f, frc, answer) ==
    /\ pc = "idle"
    /\ runs < MaxRuns
    /\ StartHistory(IF user \in UserNames /\ isfile /\ fmt = "org" THEN f ELSE << >>)
    /\ UNCHANGED <<points, tags, ptypes, dstates>>
    /\ IF user \notin UserNames
       THEN /\ EndInPrologue("importcourse", NoCourse, "CommandError:user")
            /\ prompted' = FALSE
            /\ UNCHANGED <<courses, units, coursepoints, nextid>>
       ELSE LET found == CourseRows(courses, name, user)
                k0 == IF found = {} THEN nextid.course
                      ELSE (CHOOSE c \in found : TRUE).id
                cs1 == IF found = {}
                       THEN courses \cup {[id |-> k0, name |-> name, user |-> user]}
                       ELSE courses
                nid1 == IF found = {} THEN [nextid EXCEPT !.course = @ + 1]
                        ELSE nextid
                exists == CourseRows(cs1, name, user) # {}
                asks == exists /\ ~frc
                gone == CourseRows(cs1, name, user)
                k == nid1.course
            IN  /\ prompted' = asks
                /\ IF asks /\ Lower(answer) \notin {"y", "yes"}
                   THEN \* "Operation cancelled."
                        /\ courses' = cs1
                        /\ nextid' = nid1
                        /\ UNCHANGED <<units, coursepoints>>
                        /\ EndInPrologue("importcourse", k0, "cancelled")
                   ELSE /\ courses' = (IF exists THEN cs1 \ gone ELSE cs1)
                                      \cup {[id |-> k, name |-> name, user |-> user]}
                        /\ units' = IF exists THEN DeleteCourseUnits(units, gone)
                                    ELSE units
                        /\ coursepoints' =
                               IF exists
                               THEN DeleteCourseCoursePoints(coursepoints, units, gone)
                               ELSE coursepoints
                        /\ nextid' = [nid1 EXCEPT !.course = @ + 1]
                        /\ IF ~isfile
                           THEN EndInPrologue("importcourse", k, "CommandError:file")
                           ELSE IF fmt # "org"
                           THEN EndInPrologue("importcourse", k, NoErr)
                           ELSE EnterLoop("course", k, f, FALSE, frc, {})

\* The loop body for a level-1 node.
CourseNodeL1 ==
    /\ pc = "course"
    /\ idx <= Len(file)
    /\ file[idx].level = 1
    /\ LET n == file[idx]
           p == NextUnitPosition(current_unit)
       IN  /\ current_unit' = p
           /\ IF UnitConflict(units, course, p)
              THEN /\ pc' = "done"
                   /\ err' = "IntegrityError:unit"
                   /\ UNCHANGED <<units, nextid, unit_tags, idx, decl>>
              ELSE /\ units' = units \cup {NewUnit(course, p, n.heading)}
                   /\ nextid' = [nextid EXCEPT !.unit = @ + 1]
                   /\ decl' = decl \cup {[unit |-> nextid.unit, tags |-> n.tags]}
                   /\ unit_tags' = CacheTags(unit_tags, p, n.tags)
                   /\ idx' = idx + 1
                   /\ UNCHANGED <<pc, err>>
    /\ UNCHANGED <<courses, points, tags, coursepoints, ptypes, dstates, pre, skipped,
                   prompted, runs, used, cmd, course, file, insert, force, unitnumbers,
                   next_point>>

\* The loop body for a level-2 node.
CourseNodeL2 ==
    /\ pc = "course"
    /\ idx <= Len(file)
    /\ file[idx].level = 2
    /\ LET r == ReconcilePoint(file[idx], CourseTypeName(file[idx]),
                               CourseParentPos(file, idx))
       IN  /\ points' = r.points
           /\ tags' = r.tags
           /\ coursepoints' = r.coursepoints
           /\ nextid' = r.nextid
           /\ IF r.err # NoErr
              THEN Raise(r.err)
              ELSE /\ next_point' = next_point + 1
                   /\ idx' = idx + 1
                   /\ UNCHANGED <<pc, cmd, err, course, file, insert, force,
                                  unitnumbers, current_unit, unit_tags>>
    /\ UNCHANGED <<courses, units, ptypes, dstates, hist>>

\* A node below level 2: the loop body does nothing.
CourseNodeOther ==
    /\ pc = "course"
    /\ idx <= Len(file)
    /\ file[idx].level > 2
    /\ idx' = idx + 1
    /\ UNCHANGED <<store, hist, pc, cmd, err, course, file, insert, force, unitnumbers,
                   current_unit, next_point, unit_tags>>

\* The end of the loop: the command returns.
CourseFinish ==
    /\ pc = "course"
    /\ idx > Len(file)
    /\ pc' = "done"
    /\ UNCHANGED <<store, hist, cmd, err, course, file, idx, insert, force,
                   unitnumbers, current_unit, next_point, unit_tags>>

----------------------------------------------------------------------------
(* The system: a store with its reference data and no course, and commands   *)
(* run one after the other.                                                  *)

Init ==
    /\ courses = {}
    /\ units = {}
    /\ points = {}
    /\ tags = EmptyBag
    /\ coursepoints = {}
    /\ ptypes = {"theory", "exercise"}
    /\ dstates = {[ptype |-> "theory", name |-> "todo"],
                  [ptype |-> "exercise", name |-> "todo"],
                  [ptype |-> "exercise", name |-> "done"]}
    /\ nextid = [course |-> 1, unit |-> 1, point |-> 1, coursepoint |-> 1]
    /\ pc = "idle"
    /\ cmd = "none"
    /\ err = NoErr
    /\ course = NoCourse
    /\ file = << >>
    /\ idx = 1
    /\ insert = FALSE
    /\ force = FALSE
    /\ unitnumbers = {}
    /\ current_unit = 0
    /\ next_point = 1
    /\ unit_tags = << >>
    /\ pre = Snapshot
    /\ skipped = {}
    /\ prompted = FALSE
    /\ decl = {}
    /\ runs = 0
    /\ used = 0

\* The command has returned: its process ends, and the store stays.
Exit ==
    /\ pc = "done"
    /\ pc' = "idle"
    /\ cmd' = "none"
    /\ err' = NoErr
    /\ course' = NoCourse
    /\ file' = << >>
    /\ idx' = 1
    /\ insert' = FALSE
    /\ force' = FALSE
    /\ unitnumbers' = {}
    /\ current_unit' = 0
    /\ next_point' = 1
    /\ unit_tags' = << >>
    /\ pre' = Snapshot
    /\ skipped' = {}
    /\ prompted' = FALSE
    /\ decl' = {}
    /\ UNCHANGED <<store, runs, used>>

\* The files a run may still read.
Readable(N) == Files(N, Min(MaxNodes, MaxTotal - used))

ImportUnit ==
    \E user \in ArgUsers, name \in ArgCourses, isfile \in BOOLEAN, fmt \in ArgFormats :
        IF user \in UserNames /\ isfile /\ fmt = "org"
        THEN \E f \in Readable(UnitFileNodes), number \in ArgUnitNumbers, ins \in BOOLEAN,
                frc \in BOOLEAN :
                 StartUnit(user, name, isfile, fmt, f, number, ins, frc)
        ELSE StartUnit(user, name, isfile, fmt, << >>, 0, FALSE, FALSE)

ImportCourse ==
    \E user \in ArgUsers, name \in ArgCourses, isfile \in BOOLEAN, fmt \in ArgFormats,
       frc \in BOOLEAN, answer \in Answers :
        IF user \in UserNames /\ isfile /\ fmt = "org"
        THEN \E f \in Readable(CourseFileNodes) : StartCourse(user, name, isfile, fmt, f, frc, answer)
        ELSE StartCourse(user, name, isfile, fmt, << >>, frc, answer)

Next ==
    \/ ImportUnit
    \/ UnitNodeL1
    \/ UnitSettle
    \/ UnitNodeL2
    \/ UnitNodeOther
    \/ UnitFinish
    \/ ImportCourse
    \/ CourseNodeL1
    \/ CourseNodeL2
    \/ CourseNodeOther
    \/ CourseFinish
    \/ Exit

Spec == Init /\ [][Next]_vars

----------------------------------------------------------------------------
(* renumber_points on its own: on any CoursePoints a course can hold (the    *)
(* tables are open to the admin site, so that positions may be any, equal    *)
(* ones included), run once and then once more.                              *)

MaxPoints == 3
MaxPosition == 3

RenumberCourse == 1

\* The courses renumber_points is run on: two units, and MaxPoints points each
\* with no unit or one of the two and any position.
InitRenumber ==
    /\ courses = {[id |-> RenumberCourse, name |-> "c1", user |-> "manuel"]}
    /\ \E a \in 1..2 :
           units = {[id |-> 1, course |-> RenumberCourse, position |-> a, title |-> "A"],
                    [id |-> 2, course |-> RenumberCourse, position |-> 3 - a,
                     title |-> "B"]}
    /\ points = {[id |-> i, headline |-> <<"h", i>>, contents |-> "b1",
                  ptype |-> "theory", tags |-> {}] : i \in 1..MaxPoints}
    /\ tags = EmptyBag
    /\ \E u \in [1..MaxPoints -> 0..2], q \in [1..MaxPoints -> 1..MaxPosition] :
           coursepoints = {[id |-> i, course |-> RenumberCourse, point |-> i,
                            position |-> q[i], state |-> NoState, unit |-> u[i]] :
                           i \in 1..MaxPoints}
    /\ ptypes = {"theory", "exercise"}
    /\ dstates = {[ptype |-> "theory", name |-> "todo"],
                  [ptype |-> "exercise", name |-> "todo"],
                  [ptype |-> "exercise", name |-> "done"]}
    /\ nextid = [course |-> 2, unit |-> 3, point |-> MaxPoints + 1,
                 coursepoint |-> MaxPoints + 1]
    /\ pc = "renumber"
    /\ cmd = "none"
    /\ err = NoErr
    /\ course = RenumberCourse
    /\ file = << >>
    /\ idx = 1
    /\ insert = FALSE
    /\ force = FALSE
    /\ unitnumbers = {}
    /\ current_unit = 0
    /\ next_point = 1
    /\ unit_tags = << >>
    /\ pre = Snapshot
    /\ skipped = {}
    /\ prompted = FALSE
    /\ decl = {}
    /\ runs = 0
    /\ used = 0

\* renumber_points(course)
RenumberOnce ==
    /\ pc = "renumber"
    /\ coursepoints' \in Renumberings(coursepoints, units, course)
    /\ pc' = "once"
    /\ UNCHANGED <<courses, units, points, tags, ptypes, dstates, nextid, hist, cmd,
                   err, course, file, idx, insert, force, unitnumbers, current_unit,
                   next_point, unit_tags>>

\* renumber_points(course), on what the first call has left
RenumberAgain ==
    /\ pc = "once"
    /\ coursepoints' \in Renumberings(coursepoints, units, course)
    /\ pc' = "twice"
    /\ UNCHANGED <<courses, units, points, tags, ptypes, dstates, nextid, hist, cmd,
                   err, course, file, idx, insert, force, unitnumbers, current_unit,
                   next_point, unit_tags>>

NextRenumber ==
    \/ RenumberOnce
    \/ RenumberAgain

SpecRenumber == InitRenumber /\ [][NextRenumber]_vars

----------------------------------------------------------------------------
(* What the claims speak of. *)

\* The units and the CoursePoints of the course of the run, now and as the run
\* started.
UnitsNow == {u \in units : u.course = course}
UnitsBefore == {u \in pre.units : u.course = course}
CoursePointsNow == {cp \in coursepoints : cp.course = course}
CoursePointsBefore == {cp \in pre.coursepoints : cp.course = course}

\* A run of the command has gone through the loop of parse_org and is over.
UnitRunOver == pc = "done" /\ cmd = "importunit" /\ file # << >>
CourseRunOver == pc = "done" /\ cmd = "importcourse" /\ file # << >>

\* The level-1 and the level-2 nodes of the file, in document order.
Level(f, l) == {i \in 1..Len(f) : f[i].level = l}
Rank(S, i) == Cardinality({j \in S : j <= i})

----------------------------------------------------------------------------
(* C1 *)

\* The run imports one unit, with insert, at a position that was occupied.
ShiftInsertRun ==
    /\ UnitRunOver
    /\ insert
    /\ Len(file) = 1
    /\ file[1].level = 1
    /\ file[1].pos # NoPos
    /\ should_be_imported(file[1].pos, unitnumbers)
    /\ UnitsAt(pre.units, course, file[1].pos) # {}

\* C1: a unit import with insert of a unit declared at an occupied position p
\* completes with the new unit at p, every unit that was at q >= p at q + 1, the
\* units below p unchanged, and every CoursePoint still with its unit and point.
C1_ShiftInsertCompletes ==
    ShiftInsertRun =>
        LET p == file[1].pos
            new == {u \in UnitsNow : u.id \notin {v.id : v \in UnitsBefore}}
        IN  /\ err = NoErr
            /\ \E n \in new : new = {n} /\ n.position = p /\ n.title = file[1].heading
            /\ \A u \in UnitsBefore :
                   IF u.position >= p THEN [u EXCEPT !.position = @ + 1] \in UnitsNow
                   ELSE u \in UnitsNow
            /\ Cardinality(UnitsNow) = Cardinality(UnitsBefore) + 1
            /\ \A cp \in CoursePointsBefore :
                   \E dp \in CoursePointsNow :
                       dp.id = cp.id /\ dp.unit = cp.unit /\ dp.point = cp.point

----------------------------------------------------------------------------
(* C2 *)

\* C2: in every state of a unit import, the states between the offset step and
\* the settle step included, no two units of a course have the same position,
\* and no statement of the run has been refused for the (course, position)
\* constraint.
C2_UnitPositionsUnique ==
    cmd = "importunit" =>
        /\ \A u, v \in units :
               u.course = v.course /\ u.position = v.position => u = v
        /\ err # "IntegrityError:unit"

----------------------------------------------------------------------------
(* C3 *)

\* The fatal errors the claim names.
FatalErrors ==
    {"PointType.DoesNotExist", "TypeError:int", "IntegrityError:unit",
     "CommandError:user"}

\* C3: a run that ends with a fatal error leaves the Courses, Units, Points,
\* Tags and CoursePoints as they were when the run started.
C3_AllOrNothing ==
    pc = "done" /\ err \in FatalErrors => Snapshot = pre

----------------------------------------------------------------------------
(* C4 *)

\* C4: after a completed unit import the positions of all the CoursePoints of
\* the course are exactly 1..N, N their number, with no gap and no duplicate,
\* those of an earlier unit before those of a later one, the CoursePoints with
\* no unit included.
C4_DenseNumbering ==
    UnitRunOver /\ err = NoErr =>
        /\ {cp.position : cp \in CoursePointsNow} = 1..Cardinality(CoursePointsNow)
        /\ \A cp, dp \in CoursePointsNow : cp.position = dp.position => cp = dp
        /\ \A cp, dp \in Renumbered(coursepoints, units, course) :
               UnitPos(units, cp.unit) < UnitPos(units, dp.unit)
                   => cp.position < dp.position

----------------------------------------------------------------------------
(* C5 *)

\* C5: renumber_points is idempotent: run again on what it has left, it leaves
\* every CoursePoint with the position it has.
C5_RenumberIdempotent ==
    [][pc = "once" /\ pc' = "twice" => coursepoints' = coursepoints]_vars

\* renumber_points has run twice on a course where the first run had two
\* CoursePoints of one unit to number and changed a position.
C5_Witness ==
    /\ pc = "twice"
    /\ coursepoints # pre.coursepoints
    /\ \E cp, dp \in coursepoints : cp # dp /\ cp.unit = dp.unit /\ cp.unit # NoUnit

----------------------------------------------------------------------------
(* C6 *)

\* C6: a full-course import that completes leaves the course with exactly one
\* unit per level-1 node of the file, the k-th of them at position k with the
\* heading as title, whatever units the course had before.
C6_UnitsOfOutline ==
    CourseRunOver /\ err = NoErr =>
        /\ Cardinality(UnitsNow) = Cardinality(Level(file, 1))
        /\ \A i \in Level(file, 1) :
               \E u \in UnitsNow :
                   u.position = Rank(Level(file, 1), i) /\ u.title = file[i].heading

\* A full-course import of two units has completed on a course that had one.
C6_Witness ==
    /\ CourseRunOver
    /\ err = NoErr
    /\ Cardinality(Level(file, 1)) = 2
    /\ Cardinality(pre.units) = 1

----------------------------------------------------------------------------
(* C7 *)

\* C7: a full-course import that completes has one CoursePoint per level-2 node
\* of the file, that of the k-th level-2 node at position k, whatever units
\* lie between the nodes.
C7_PointsInDocumentOrder ==
    CourseRunOver /\ err = NoErr =>
        /\ Cardinality(CoursePointsNow) = Cardinality(Level(file, 2))
        /\ \A i \in Level(file, 2) :
               \E cp \in CoursePointsNow, p \in points :
                   /\ cp.position = Rank(Level(file, 2), i)
                   /\ cp.point = p.id
                   /\ p.headline = file[i].heading

\* A full-course import has completed on a file with a point before the first
\* unit and a point in it.
C7_Witness ==
    /\ CourseRunOver
    /\ err = NoErr
    /\ Len(file) = 3
    /\ file[1].level = 2
    /\ file[2].level = 1
    /\ file[3].level = 2

----------------------------------------------------------------------------
(* C8 *)

\* The step is the import of a level-2 node.
PointImported ==
    /\ pc \in {"unit", "course"}
    /\ idx <= Len(file)
    /\ file[idx].level = 2
    /\ idx' = idx + 1
    /\ next_point' = next_point + 1

\* C8: there is at most one Point per heading, and the import of a level-2 node
\* leaves one Point with the heading of the node, with the body of the node as
\* contents and with its type: the Point that had the heading, if there was
\* one, and no other Point is created.
C8_PointIdentity ==
    [][/\ \A p, q \in points' : p.headline = q.headline => p = q
       /\ PointImported =>
              LET n == file[idx]
              IN  \E p \in points' :
                      /\ p.headline = n.heading
                      /\ p.contents = n.body
                      /\ p.ptype \in ptypes
                      /\ n.type \in ptypes => p.ptype = n.type
                      /\ \A o \in points : o.headline = n.heading => o.id = p.id
                      /\ {q.id : q \in points'} = {q.id : q \in points} \cup {p.id}
      ]_vars

\* A run has completed that gave a Point of an earlier run other contents and
\* another type.
C8_Witness ==
    /\ pc = "done"
    /\ err = NoErr
    /\ \E p \in points, o \in pre.points :
           /\ p.id = o.id
           /\ o.ptype # ""
           /\ p.ptype # o.ptype
           /\ p.contents # o.contents

----------------------------------------------------------------------------
(* C9 *)

\* importunit: the unit position parse_org holds as node i is visited.
CurrentUnitAt(f, i) ==
    IF {j \in Level(f, 1) : j < i} = {} THEN 0
    ELSE f[Max({j \in Level(f, 1) : j < i})].pos

\* The level-2 nodes a completed run has imported.
ImportedNodes ==
    {i \in Level(file, 2) :
        cmd = "importunit" => should_be_imported(CurrentUnitAt(file, i), unitnumbers)}

\* C9: after a completed import the tags of every imported point include the
\* tags of its node and, when its CoursePoint has a unit, the tags declared on
\* the heading of that unit; no tag name is stored twice.
C9_TagsSuperset ==
    pc = "done" /\ err = NoErr /\ file # << >> =>
        /\ \A i \in ImportedNodes :
               \E p \in points :
                   /\ p.headline = file[i].heading
                   /\ file[i].tags \subseteq p.tags
                   /\ \A cp \in CoursePointsNow :
                          cp.point = p.id /\ cp.unit # NoUnit =>
                              \E d \in decl : d.unit = cp.unit /\ d.tags \subseteq p.tags
        /\ \A t \in BagToSet(tags) : CopiesIn(t, tags) = 1
        /\ \A p \in points : \A t \in p.tags : BagIn(t, tags)

\* An import has completed with a point that has a tag of its own heading and a
\* tag of the heading of its unit.
C9_Witness ==
    /\ pc = "done"
    /\ err = NoErr
    /\ \E i \in ImportedNodes, p \in points, cp \in CoursePointsNow, d \in decl :
           /\ p.headline = file[i].heading
           /\ cp.point = p.id
           /\ d.unit = cp.unit
           /\ file[i].tags # {}
           /\ d.tags # {}
           /\ d.tags \cap file[i].tags = {}

----------------------------------------------------------------------------
(* C10 *)

\* A file with nothing fatal in it: every unit has a position of its own, every
\* point a type of the vocabulary and a heading of its own that the course does
\* not have yet.
WellFormed(f) ==
    /\ \A i \in Level(f, 1) : f[i].pos # NoPos
    /\ \A i, j \in Level(f, 1) : f[i].pos = f[j].pos => i = j
    /\ \A i \in Level(f, 2) : UnitTypeName(f[i]) \in ptypes
    /\ \A i, j \in Level(f, 2) : f[i].heading = f[j].heading => i = j
    /\ \A i \in Level(f, 2) :
           \A cp \in CoursePointsBefore, q \in pre.points :
               cp.point = q.id => q.headline # f[i].heading

\* C10: in a unit import without insert and without force, a declined
\* confirmation skips the unit and only it: the run does not abort, the unit
\* that was at the position and its CoursePoints stay, and the units that follow
\* in the file are imported.
C10_DeclineSkipsOnlyThatUnit ==
    UnitRunOver /\ skipped # {} /\ WellFormed(file) =>
        /\ err = NoErr
        /\ \A i \in skipped :
               \A u \in UnitsAt(pre.units, course, file[i].pos) :
                   (\A j \in 1..(i - 1) : file[j].pos # file[i].pos) =>
                       /\ u \in units
                       /\ {cp.id : cp \in {dp \in coursepoints : dp.unit = u.id}}
                              = {cp.id : cp \in {dp \in pre.coursepoints : dp.unit = u.id}}
        /\ \A i \in skipped :
               \A j \in Level(file, 1) :
                   j > i /\ file[j].pos # NoPos /\ file[j].pos # file[i].pos
                         /\ should_be_imported(file[j].pos, unitnumbers) =>
                       \E u \in UnitsNow :
                           u.position = file[j].pos /\ u.title = file[j].heading

----------------------------------------------------------------------------
(* C11 *)

\* Two level-1 nodes of the file that are imported declare one position.
DuplicatePosition ==
    \E i, j \in Level(file, 1) :
        /\ i < j
        /\ file[i].pos # NoPos
        /\ file[i].pos = file[j].pos
        /\ should_be_imported(file[i].pos, unitnumbers)

\* C11: a unit import of a file in which two level-1 nodes declare the same
\* position ends with a fatal error, whatever the mode, and every unit the run
\* has created is still there at a position of the file: the later node has
\* neither replaced nor displaced the earlier one.
C11_DuplicatePositionRejected ==
    UnitRunOver /\ DuplicatePosition =>
        /\ err # NoErr
        /\ \A d \in decl :
               \E u \in UnitsNow :
                   /\ u.id = d.unit
                   /\ \E i \in Level(file, 1) : u.position = file[i].pos

----------------------------------------------------------------------------
(* C12 *)

\* The step is the body of the loop for a level-2 node that the run imports and
\* whose TYPE names no PointType, neither as written nor case-folded.
UnknownTypeStep ==
    /\ pc \in {"unit", "course"}
    /\ idx <= Len(file)
    /\ file[idx].level = 2
    /\ pc = "unit" => should_be_imported(current_unit, unitnumbers)
    /\ file[idx].type # ""
    /\ file[idx].type \notin ptypes
    /\ Lower(file[idx].type) \notin ptypes

\* C12: no step of an import, of a run that fails included, creates, deletes or
\* changes a PointType or a DeliveryState, and the import of a point whose TYPE
\* names no PointType ends the run with the lookup's exception.
C12_VocabularyUntouched ==
    [][/\ ptypes' = ptypes
       /\ dstates' = dstates
       /\ UnknownTypeStep => pc' = "done" /\ err' = "PointType.DoesNotExist"
      ]_vars

\* A run has ended on a point whose TYPE names no PointType.
C12_Witness ==
    /\ pc = "done"
    /\ err = "PointType.DoesNotExist"
    /\ idx <= Len(file)
    /\ file[idx].type = "bogus"
    /\ points # pre.points

----------------------------------------------------------------------------
(* C13 *)

\* C13: a run of either command that ends because the user does not exist or
\* because the input file is not found leaves Courses, Units, Points, Tags and
\* CoursePoints as they were when the run started.
C13_NoMutationBeforeInput ==
    pc = "done" /\ err \in {"CommandError:user", "CommandError:file"} => Snapshot = pre

----------------------------------------------------------------------------
(* C14 *)

\* C14: the import of a level-2 node creates one CoursePoint, for the Point of
\* the node; its state is the DeliveryState of the type of the Point that is
\* named by the case-folded TODO keyword of the node if there is one, and unset
\* if there is none or the keyword is empty; a state of another type is never
\* attached.
C14_StateWithinType ==
    [][PointImported =>
           LET n == file[idx]
               new == coursepoints' \ coursepoints
               wanted(p) == [ptype |-> p.ptype, name |-> Lower(n.todo)]
           IN  /\ err' = NoErr
               /\ Cardinality(new) = 1
               /\ \A cp \in new :
                      \E p \in points' :
                          /\ p.headline = n.heading
                          /\ cp.point = p.id
                          /\ cp.state = IF n.todo # "" /\ wanted(p) \in dstates
                                        THEN wanted(p) ELSE NoState
                          /\ cp.state # NoState => cp.state.ptype = p.ptype
      ]_vars

\* A run has completed that imported a point with a keyword its type has a
\* state for, and a point with a keyword that only another type has a state for.
C14_Witness ==
    /\ pc = "done"
    /\ err = NoErr
    /\ \E i, j \in Level(file, 2), cp, dp \in CoursePointsNow, p, q \in points :
           /\ file[i].todo = "DONE" /\ file[i].type = "theory"
           /\ p.headline = file[i].heading /\ cp.point = p.id
           /\ cp.state = NoState
           /\ [ptype |-> "exercise", name |-> "done"] \in dstates
           /\ file[j].todo = "TODO"
           /\ q.headline = file[j].heading /\ dp.point = q.id
           /\ dp.state = [ptype |-> "exercise", name |-> "todo"]

----------------------------------------------------------------------------
(* C15 *)

\* C15: a run of either command on a file of level-2 nodes that supply no TYPE
\* (each with a heading of its own that the course does not have yet), with a
\* PointType named "theory" in the store, completes, and the Point of every
\* node it imports has the type "theory".
C15_DefaultTypeTheory ==
    /\ pc = "done"
    /\ file # << >>
    /\ WellFormed(file)
    /\ \A i \in 1..Len(file) : file[i].level = 2 /\ file[i].type = ""
    /\ "theory" \in ptypes
    => /\ err = NoErr
       /\ \A i \in ImportedNodes :
              \E p \in points : p.headline = file[i].heading /\ p.ptype = "theory"

----------------------------------------------------------------------------
(* C16 *)

\* C16: a full-course import asks for confirmation only when the store had a
\* course of the name and user of the run when the run started, and a run whose
\* prompt was declined has created and deleted no Course, Unit or CoursePoint.
C16_PromptOnlyForExistingCourse ==
    cmd = "importcourse" =>
        /\ prompted =>
               \E c \in courses :
                   c.id = course /\ CourseRows(pre.courses, c.name, c.user) # {}
        /\ err = "cancelled" =>
               /\ courses = pre.courses
               /\ units = pre.units
               /\ coursepoints = pre.coursepoints

----------------------------------------------------------------------------
(* C17 *)

\* The level-1 nodes of the file that the run imports onto a position that was
\* occupied when the run started.
ReplacingNodes ==
    {i \in Level(file, 1) :
        /\ file[i].pos # NoPos
        /\ should_be_imported(file[i].pos, unitnumbers)
        /\ UnitsAt(pre.units, course, file[i].pos) # {}}

\* The positions the level-1 nodes of the file declare.
DeclaredPositions == {file[i].pos : i \in Level(file, 1)}

\* A unit import without insert has completed, no prompt was declined, and the
\* units of the file have positions, each its own.
ReplaceRunOver ==
    /\ UnitRunOver
    /\ err = NoErr
    /\ ~insert
    /\ skipped = {}
    /\ \A i \in Level(file, 1) : file[i].pos # NoPos
    /\ \A i, j \in Level(file, 1) : file[i].pos = file[j].pos => i = j

\* The CoursePoints of the unit u.
PointsOf(cps, u) == {cp \in cps : cp.unit = u.id}

\* C17: after such a run, for every level-1 node imported onto an occupied
\* position, the unit that was there and the CoursePoints it had are gone, the
\* unit at the position is a new one with the heading as title, and its
\* CoursePoints are those of the level-2 nodes under the node in the file, in
\* document order; the units at positions the file does not declare are still
\* there, with the same CoursePoints, each with its point, in the same order.
C17_ReplaceSemantics ==
    ReplaceRunOver =>
        /\ \A i \in ReplacingNodes :
               LET children == {j \in Level(file, 2) : Parent(file, j) = i}
               IN  /\ \A u \in UnitsAt(pre.units, course, file[i].pos) :
                          /\ u.id \notin {v.id : v \in units}
                          /\ \A cp \in PointsOf(pre.coursepoints, u) :
                                 cp.id \notin {dp.id : dp \in coursepoints}
                   /\ \E u \in UnitsNow :
                          /\ UnitsAt(units, course, file[i].pos) = {u}
                          /\ u.title = file[i].heading
                          /\ Cardinality(PointsOf(coursepoints, u)) = Cardinality(children)
                          /\ \A j \in children :
                                 \E cp \in PointsOf(coursepoints, u), p \in points :
                                     /\ cp.point = p.id
                                     /\ p.headline = file[j].heading
                                     /\ Cardinality({dp \in PointsOf(coursepoints, u) :
                                                        dp.position <= cp.position})
                                            = Rank(children, j)
        /\ \A u \in UnitsBefore :
               u.position \notin DeclaredPositions =>
                   /\ u \in units
                   /\ {cp.id : cp \in PointsOf(coursepoints, u)}
                          = {cp.id : cp \in PointsOf(pre.coursepoints, u)}
                   /\ \A cp \in PointsOf(pre.coursepoints, u) :
                          \E dp \in PointsOf(coursepoints, u) :
                              /\ dp.id = cp.id
                              /\ dp.point = cp.point
                              /\ \A cq \in PointsOf(pre.coursepoints, u) :
                                     \E dq \in PointsOf(coursepoints, u) :
                                         /\ dq.id = cq.id
                                         /\ cp.position < cq.position
                                                => dp.position < dq.position

\* A unit that had a CoursePoint has been replaced by a unit with a CoursePoint.
C17_Witness ==
    /\ ReplaceRunOver
    /\ \E i \in ReplacingNodes :
           /\ \E u \in UnitsAt(pre.units, course, file[i].pos) :
                  PointsOf(pre.coursepoints, u) # {}
           /\ \E u \in UnitsAt(units, course, file[i].pos) :
                  PointsOf(coursepoints, u) # {}

----------------------------------------------------------------------------
(* C18 *)

\* The step is the body of the loop of importunit for a level-1 node whose
\* position the filter does not select, or for a level-2 node under one.
FilteredOutStep ==
    /\ pc = "unit"
    /\ idx <= Len(file)
    /\ unitnumbers # {}
    /\ \/ /\ file[idx].level = 1
          /\ file[idx].pos # NoPos
          /\ file[idx].pos \notin unitnumbers
       \/ /\ file[idx].level = 2
          /\ Parent(file, idx) # 0
          /\ file[Parent(file, idx)].pos # NoPos
          /\ file[Parent(file, idx)].pos \notin unitnumbers

\* A unit import with an empty filter has completed, and no prompt was declined.
UnfilteredRunOver ==
    /\ UnitRunOver
    /\ err = NoErr
    /\ unitnumbers = {}
    /\ skipped = {}

\* C18: with a non-empty filter, the step for a level-1 node whose position is
\* not selected, and the step for each level-2 node under it, change nothing in
\* the store and do not end the run; a completed run with an empty filter has
\* left a unit for every level-1 node of the file (for the last one, of those
\* that declare one position).
C18_FilterGatesUnit ==
    [][/\ FilteredOutStep =>
              /\ UNCHANGED store
              /\ pc' = "unit"
              /\ idx' = idx + 1
       /\ UnfilteredRunOver' =>
              \A i \in Level(file', 1) :
                  (\A j \in Level(file', 1) : j > i => file'[j].pos # file'[i].pos) =>
                      \E u \in units' :
                          /\ u.course = course'
                          /\ u.position = file'[i].pos
                          /\ u.title = file'[i].heading
      ]_vars

\* A run with a filter has completed that passed over a unit with a point under
\* it and imported another unit.
C18_Witness ==
    /\ UnitRunOver
    /\ err = NoErr
    /\ unitnumbers # {}
    /\ \E i \in Level(file, 1), j \in Level(file, 2) :
           /\ file[i].pos # NoPos
           /\ file[i].pos \notin unitnumbers
           /\ Parent(file, j) = i
           /\ UnitsAt(units, course, file[i].pos) = {}
    /\ points = pre.points
    /\ units # pre.units

----------------------------------------------------------------------------
(* C19 *)

\* The step is the body of the loop of importunit for a level-2 node under a
\* level-1 node whose confirmation was declined (the first node of the file to
\* declare its position).
SkippedChildStep ==
    /\ pc = "unit"
    /\ idx <= Len(file)
    /\ file[idx].level = 2
    /\ Parent(file, idx) \in skipped
    /\ \A j \in 1..(Parent(file, idx) - 1) : file[j].pos # file[Parent(file, idx)].pos

\* C19: the step for a level-2 node under a unit whose confirmation was
\* declined goes on with the run and creates a CoursePoint with no unit for the
\* Point of the node, whose tags are those it had and those of the node, and no
\* others.
C19_SkippedChildrenOrphaned ==
    [][SkippedChildStep =>
           LET n == file[idx]
               had == UNION {p.tags : p \in PointsNamed(points, n.heading)}
           IN  /\ pc' = "unit"
               /\ err' = NoErr
               /\ \E cp \in coursepoints' \ coursepoints, p \in points' :
                      /\ cp.unit = NoUnit
                      /\ cp.point = p.id
                      /\ p.headline = n.heading
                      /\ p.tags = had \cup n.tags
      ]_vars

----------------------------------------------------------------------------
(* C20 *)

\* The tags declared on the heading of the unit with the id uid, a unit this
\* run has created (none for no unit).
UnitTagsOf(uid) == UNION {d.tags : d \in {e \in decl : e.unit = uid}}

\* C20: no step of an import takes a tag from a Point (or deletes a Point), and
\* the import of a level-2 node leaves its Point with the tags it had, the tags
\* of the node and the tags of the unit its CoursePoint is attached to, and no
\* others.
C20_TagsOnlyGrow ==
    [][/\ \A p \in points :
              \E q \in points' :
                  q.id = p.id /\ q.headline = p.headline /\ p.tags \subseteq q.tags
       /\ PointImported =>
              LET n == file[idx]
                  had == UNION {p.tags : p \in {q \in points : q.headline = n.heading}}
              IN  \E cp \in coursepoints' \ coursepoints, p \in points' :
                      /\ cp.point = p.id
                      /\ p.headline = n.heading
                      /\ p.tags = (had \cup n.tags) \cup UnitTagsOf(cp.unit)
      ]_vars

\* A run has completed that imported, with no tag, a heading whose Point had a
\* tag, and the Point has kept it.
C20_Witness ==
    /\ pc = "done"
    /\ err = NoErr
    /\ \E i \in ImportedNodes, p \in points, o \in pre.points :
           /\ p.id = o.id
           /\ p.headline = file[i].heading
           /\ file[i].tags = {}
           /\ UnitParentPos(file, i) = NoPos
           /\ o.tags # {}
           /\ p.tags = o.tags
           /\ p.contents # o.contents

=============================================================================
